---- MODULE Spec2Model ----
(***************************************************************************)
(* A model of pycam's configuration persistence layer:                     *)
(*   - pycam/Flow/parser.py : COLLECTIONS, parse_yaml, dump_yaml           *)
(*   - pycam/Gui/__init__.py: BaseUI's loading and saving of the project   *)
(*     settings and of the preferences                                     *)
(* Three specifications share the variables:                               *)
(*   Spec      the parser API (parse_yaml, dump_yaml)                      *)
(*   SpecGui   BaseUI's project settings operations                        *)
(*   SpecPrefs BaseUI's preferences operations                             *)
(* An operation runs from pc = "idle" to pc = "done", where its arguments, *)
(* the state before it (pre, preSettings) and its outcome are visible;     *)
(* Return forgets them and goes back to "idle".                            *)
(***************************************************************************)
EXTENDS Integers, Sequences, FiniteSets, TLC

VARIABLES
    coll,           \* item_class.get_collection() of every kind: a sequence of [name, ent]
    pc,             \* "idle" | "done"
    op,             \* the operation that ran last
    outcome,        \* "returned" | "raised": how it came back to its caller
    io,             \* what opening / reading / writing the file did
    doc,            \* the document parse_yaml decoded, or the one dump_yaml produced
    excluded_sections,  \* excluded_sections of the call
    reset,          \* reset of the call
    pre,            \* coll before the call
    order,          \* the kinds parse_yaml imported, in the order it imported them
    src,            \* where the parsed document came from
    prevNames,      \* names of the document of the preceding merging parse_yaml call
    last_project_settings_uri,  \* BaseUI.last_project_settings_uri
    settings,       \* the preference store (self.settings)
    prefFile,       \* the preferences file on disk
    preSettings,    \* settings before the call
    config          \* the entries load_preferences read from the file

vars ==
    <<coll, pc, op, outcome, io, doc, excluded_sections, reset, pre, order, src,
      prevNames, last_project_settings_uri, settings, prefFile, preSettings, config>>

(***************************************************************************)
(* Bounds of the inputs                                                    *)
(***************************************************************************)
\* a document handed to parse_yaml holds at most this many items
MaxItems == 2
\* a preferences file written outside of pycam holds at most this many entries
MaxFileItems == 2

(***************************************************************************)
(* The registry                                                            *)
(***************************************************************************)
COLLECTIONS ==
    <<"tools", "processes", "bounds", "tasks", "models", "toolpaths",
      "export_settings", "exports">>

KindSet == {COLLECTIONS[i] : i \in 1..Len(COLLECTIONS)}

\* the sections an item's data names other items of, as the project settings
\* shipped with pycam use them: a task names a tool, a process, a bounds item
\* and its collision models
References(k) ==
    IF k = "tasks" THEN {"tools", "processes", "bounds", "models"} ELSE {}

(***************************************************************************)
(* Names and item data                                                     *)
(***************************************************************************)
Names == {"x", "y"}

\* alphabetical rank of a name: yaml.dump sorts the keys of a mapping
NameRank(n) ==
    CASE n = "fine" -> 1
      [] n = "minimal" -> 2
      [] n = "model" -> 3
      [] n = "process_slicing" -> 4
      [] n = "process_surfacing" -> 5
      [] n = "rough" -> 6
      [] n = "x" -> 7
      [] n = "y" -> 8

\* Raw item data of a document. ok: whether the kind's constructor accepts it;
\* val: the fields the kind recognizes; ext: the X-Application bag (0: none);
\* uuid: the internal identifier (0: none given).
BadData == [ok |-> FALSE, val |-> 0, ext |-> 0, uuid |-> 0]
RawData ==
    { BadData,
      [ok |-> TRUE, val |-> 1, ext |-> 0, uuid |-> 0],
      [ok |-> TRUE, val |-> 2, ext |-> 1, uuid |-> 0] }

NoEntity == [val |-> 0, ext |-> 0, uuid |-> 0]

\* item_class(name, data): the entity, or no entity when the data is invalid.
\* A new entity gets an internal identifier unless the data carries one.
Construct(name, data) ==
    IF data.ok
    THEN [ok |-> TRUE,
          ent |-> [val |-> data.val, ext |-> data.ext,
                   uuid |-> IF data.uuid = 0 THEN 1 ELSE data.uuid]]
    ELSE [ok |-> FALSE, ent |-> NoEntity]

(***************************************************************************)
(* Collections: name-keyed, insertion order kept                           *)
(***************************************************************************)
NamesOf(c) == {c[i].name : i \in 1..Len(c)}

Has(c, n) == n \in NamesOf(c)

Count(c, n) == Cardinality({i \in 1..Len(c) : c[i].name = n})

Get(c, n) == c[CHOOSE i \in 1..Len(c) : c[i].name = n].ent

\* collection[name] = entity: a name already there is overwritten in place
Insert(c, n, e) ==
    IF Has(c, n)
    THEN [i \in 1..Len(c) |-> IF c[i].name = n THEN [name |-> n, ent |-> e] ELSE c[i]]
    ELSE Append(c, [name |-> n, ent |-> e])

\* collection.clear()
Clear(c) == <<>>

EmptyColl == [k \in KindSet |-> <<>>]

RECURSIVE InsertSorted(_, _)
InsertSorted(s, item) ==
    IF s = <<>> THEN <<item>>
    ELSE IF NameRank(item.name) < NameRank(Head(s).name)
         THEN <<item>> \o s
         ELSE <<Head(s)>> \o InsertSorted(Tail(s), item)

RECURSIVE SortByName(_)
SortByName(s) ==
    IF s = <<>> THEN <<>> ELSE InsertSorted(SortByName(Tail(s)), Head(s))

\* collection.get_dict(with_application_attributes, without_uuids)
GetDict(c, withApp, withoutUuids) ==
    [i \in 1..Len(c) |->
        [name |-> c[i].name,
         data |-> [ok |-> TRUE,
                   val |-> c[i].ent.val,
                   ext |-> IF withApp THEN c[i].ent.ext ELSE 0,
                   uuid |-> IF withoutUuids THEN 0 ELSE c[i].ent.uuid]]]

(***************************************************************************)
(* Documents                                                               *)
(***************************************************************************)
NoSections == [k \in {} |-> <<>>]

\* yaml.safe_load gives None for an empty source
NoneDoc == [kind |-> "none", secs |-> NoSections]
\* a source whose top level is no mapping (a scalar, a list)
ScalarDoc == [kind |-> "scalar", secs |-> NoSections]

\* parsed.get(section.value, {})
SectionOf(parsed, k) ==
    IF k \in DOMAIN parsed.secs THEN parsed.secs[k] ELSE <<>>

(***************************************************************************)
(* parse_yaml                                                              *)
(***************************************************************************)
IsExcludedNever(k, excl) == FALSE

\* excluded_sections and (section in excluded_sections)
IsExcluded(k, excl) == excl # {} /\ k \in excl

AfterResetKeep(c, rst) == c

\* if reset: collection.clear()
AfterReset(c, rst) == IF rst THEN Clear(c) ELSE c

\* item_class(name, data): the constructor puts the entity into its collection;
\* a failure is logged and the item skipped
ImportItem(c, item) ==
    LET r == Construct(item.name, item.data)
    IN  IF r.ok THEN Insert(c, item.name, r.ent) ELSE c

RECURSIVE ImportItemsAbort(_, _)
ImportItemsAbort(c, section) ==
    IF section = <<>> THEN c
    ELSE IF ~Head(section).data.ok THEN c
         ELSE ImportItemsAbort(ImportItem(c, Head(section)), Tail(section))

RECURSIVE ImportItemsKeepExisting(_, _)
ImportItemsKeepExisting(c, section) ==
    IF section = <<>> THEN c
    ELSE IF Has(c, Head(section).name)
         THEN ImportItemsKeepExisting(c, Tail(section))
         ELSE ImportItemsKeepExisting(ImportItem(c, Head(section)), Tail(section))

\* for name, data in parsed.get(section.value, {}).items(): ...
RECURSIVE ImportItems(_, _)
ImportItems(c, section) ==
    IF section = <<>> THEN c
    ELSE ImportItems(ImportItem(c, Head(section)), Tail(section))

\* for item_class in COLLECTIONS: ... from the i-th kind on
RECURSIVE ParseLoop(_, _, _, _, _)
ParseLoop(i, c, parsed, excl, rst) ==
    IF i > Len(COLLECTIONS)
    THEN [coll |-> c, outcome |-> "returned", order |-> <<>>]
    ELSE LET k == COLLECTIONS[i] IN
         IF IsExcluded(k, excl)
         THEN ParseLoop(i + 1, c, parsed, excl, rst)
         ELSE LET cleared == AfterReset(c[k], rst) IN
              IF parsed.kind # "map"
              THEN \* parsed.get fails: the exception leaves parse_yaml
                   [coll |-> [c EXCEPT ![k] = cleared], outcome |-> "raised",
                    order |-> <<>>]
              ELSE LET imported == ImportItems(cleared, SectionOf(parsed, k))
                       rest == ParseLoop(i + 1, [c EXCEPT ![k] = imported],
                                         parsed, excl, rst)
                   IN  [rest EXCEPT !.order = <<k>> \o rest.order]

parse_yaml_no_empty_check(c, parsed, excl, rst) ==
    ParseLoop(1, c, IF parsed.kind = "none"
                    THEN [kind |-> "map", secs |-> NoSections] ELSE parsed,
              excl, rst)

\* parse_yaml(source, excluded_sections, reset) on the decoded source
parse_yaml(c, parsed, excl, rst) ==
    IF parsed.kind = "none"
    THEN [coll |-> c, outcome |-> "returned", order |-> <<>>]
    ELSE ParseLoop(1, c, parsed, excl, rst)

(***************************************************************************)
(* dump_yaml                                                               *)
(***************************************************************************)
dump_yaml_no_app_attributes(c, excl) ==
    [kind |-> "map",
     secs |-> [k \in {s \in KindSet : ~IsExcluded(s, excl)} |->
                  SortByName(GetDict(c[k], FALSE, TRUE))]]

\* dump_yaml(excluded_sections): the document yaml.dump writes, as
\* yaml.safe_load reads it back (the keys of every mapping sorted)
dump_yaml(c, excl) ==
    [kind |-> "map",
     secs |-> [k \in {s \in KindSet : ~IsExcluded(s, excl)} |->
                  SortByName(GetDict(c[k], TRUE, TRUE))]]

(***************************************************************************)
(* The documents the environment hands to parse_yaml                       *)
(***************************************************************************)
\* the sections the input documents fill
DocKinds == {"tasks", "models"}

Items == [name : Names, data : RawData]

\* a mapping of names to data, in document order: no name twice
Sections ==
    {s \in UNION {[1..l -> Items] : l \in 0..MaxItems} :
        \A i, j \in 1..Len(s) : i # j => s[i].name # s[j].name}

RECURSIVE TotalItems(_, _)
TotalItems(f, ks) ==
    IF ks = {} THEN 0
    ELSE LET k == CHOOSE x \in ks : TRUE
         IN  Len(f[k]) + TotalItems(f, ks \ {k})

\* a section without items has no key in the document
MapDoc(f) ==
    [kind |-> "map", secs |-> [k \in {s \in DOMAIN f : f[s] # <<>>} |-> f[k]]]

MapDocs ==
    {MapDoc(f) : f \in {g \in [DocKinds -> Sections] : TotalItems(g, DocKinds) <= MaxItems}}

Docs == MapDocs \cup {NoneDoc, ScalarDoc}

ExclChoices == {{}} \cup {{k} : k \in DocKinds}

NoNames == [k \in KindSet |-> {}]

DocNames(d) == [k \in KindSet |-> NamesOf(SectionOf(d, k))]

(***************************************************************************)
(* Initial state: nothing loaded, the preference store at its defaults     *)
(***************************************************************************)
Idle ==
    /\ pc = "idle" /\ op = "none" /\ outcome = "none" /\ io = "none"
    /\ doc = NoneDoc /\ excluded_sections = {} /\ reset = FALSE /\ pre = EmptyColl
    /\ order = <<>> /\ src = "none"

ProjectUnchanged ==
    UNCHANGED <<coll, doc, excluded_sections, reset, pre, order, src, prevNames,
                last_project_settings_uri>>

(***************************************************************************)
(* Spec: the parser API                                                    *)
(***************************************************************************)
\* parse_yaml(source, excluded_sections, reset) called with a document `d`
DoParse(d, excl, rst, from, name) ==
    LET r == parse_yaml(coll, d, excl, rst)
    IN  /\ coll' = r.coll
        /\ outcome' = r.outcome
        /\ order' = r.order
        /\ pre' = coll
        /\ doc' = d /\ excluded_sections' = excl /\ reset' = rst
        /\ src' = from /\ op' = name
        /\ pc' = "done"

Parse ==
    /\ pc = "idle"
    /\ \E d \in Docs, excl \in ExclChoices, rst \in BOOLEAN :
          DoParse(d, excl, rst, "input", "parse_yaml")
    /\ io' = "none"
    /\ UNCHANGED <<prevNames, last_project_settings_uri, settings, prefFile, preSettings,
                   config>>

\* dump_yaml(excluded_sections=excl)
Dump ==
    /\ pc = "idle"
    /\ \E excl \in ExclChoices :
          /\ doc' = dump_yaml(coll, excl)
          /\ excluded_sections' = excl
    /\ pc' = "done" /\ op' = "dump_yaml" /\ outcome' = "returned"
    /\ pre' = coll /\ src' = "none" /\ io' = "none"
    /\ UNCHANGED <<coll, reset, order, prevNames, last_project_settings_uri, settings,
                   prefFile, preSettings, config>>

\* the document dump_yaml() just produced is parsed again
ReparseDump ==
    /\ pc = "done" /\ op = "dump_yaml" /\ excluded_sections = {}
    /\ \E rst \in BOOLEAN : DoParse(doc, {}, rst, "dump", "parse_yaml")
    /\ io' = "none"
    /\ UNCHANGED <<prevNames, last_project_settings_uri, settings, prefFile, preSettings,
                   config>>

\* the operation is over: back to the caller
Return ==
    /\ pc = "done"
    /\ pc' = "idle" /\ op' = "none" /\ outcome' = "none" /\ io' = "none"
    /\ doc' = NoneDoc /\ excluded_sections' = {} /\ reset' = FALSE /\ pre' = EmptyColl
    /\ order' = <<>> /\ src' = "none"
    /\ prevNames' = NoNames
    /\ preSettings' = <<>> /\ config' = <<>>
    /\ UNCHANGED <<coll, last_project_settings_uri, settings, prefFile>>

Next == Parse \/ Dump \/ ReparseDump \/ Return

(***************************************************************************)
(* SpecMerge: parse_yaml(source) calls in sequence, all with reset=False   *)
(* and no excluded sections                                                *)
(***************************************************************************)
ParseMerge ==
    /\ pc = "idle"
    /\ \E d \in Docs : DoParse(d, {}, FALSE, "input", "parse_yaml")
    /\ io' = "none"
    /\ UNCHANGED <<prevNames, last_project_settings_uri, settings, prefFile, preSettings,
                   config>>

\* back to the caller; the names of the document just merged are remembered
ReturnMerge ==
    /\ pc = "done"
    /\ pc' = "idle" /\ op' = "none" /\ outcome' = "none" /\ io' = "none"
    /\ doc' = NoneDoc /\ excluded_sections' = {} /\ reset' = FALSE /\ pre' = EmptyColl
    /\ order' = <<>> /\ src' = "none"
    /\ prevNames' = IF outcome = "returned" /\ doc.kind = "map"
                    THEN DocNames(doc) ELSE NoNames
    /\ preSettings' = <<>> /\ config' = <<>>
    /\ UNCHANGED <<coll, last_project_settings_uri, settings, prefFile>>

NextMerge == ParseMerge \/ ReturnMerge

(***************************************************************************)
(* SpecGui: BaseUI's project settings operations                           *)
(***************************************************************************)
Item(n, v) == [name |-> n, data |-> [ok |-> TRUE, val |-> v, ext |-> 1, uuid |-> 0]]

\* the project settings used when no project settings file exists; every item
\* carries an X-Application bag
DEFAULT_PROJECT_SETTINGS ==
    [kind |-> "map",
     secs |-> [k \in {"models", "tools", "processes", "bounds", "tasks"} |->
        CASE k = "models" -> <<Item("model", 1)>>
          [] k = "tools" -> <<Item("rough", 1), Item("fine", 2)>>
          [] k = "processes" -> <<Item("process_slicing", 1), Item("process_surfacing", 2)>>
          [] k = "bounds" -> <<Item("minimal", 1)>>
          [] k = "tasks" -> <<Item("rough", 1), Item("fine", 2)>>]]

\* what a project settings file holds: a mapping, or nothing
FileDocs == MapDocs \cup {NoneDoc}

FileNames == {"f"}

\* the parameters of dump_yaml
DumpYamlParams == {"target", "excluded_sections"}

\* the keyword arguments BaseUI passes to dump_yaml
SaveCallKwargs == {"target", "sections"}

\* a call with a keyword the function does not have raises TypeError
CallAccepted(kwargs, params) == kwargs \subseteq params

\* the local variable `content` after the try block around open() and read()
ContentAfterRead(result, d) ==
    IF result = "ok" THEN [bound |-> TRUE, value |-> d]
    ELSE [bound |-> FALSE, value |-> NoneDoc]

\* an operation that leaves the collections alone
GuiOutcome(name, result, how) ==
    /\ pc' = "done" /\ op' = name /\ io' = result /\ outcome' = how
    /\ pre' = coll /\ doc' = NoneDoc /\ excluded_sections' = {} /\ reset' = FALSE
    /\ order' = <<>> /\ src' = "none"
    /\ UNCHANGED coll

load_project_settings ==
    /\ pc = "idle"
    /\ \E result \in {"ok", "notfound", "oserror"} :
          /\ io' = result
          /\ CASE result = "ok" ->
                    \E d \in FileDocs : DoParse(d, {}, TRUE, "file", "load_project_settings")
               [] result = "notfound" ->
                    DoParse(DEFAULT_PROJECT_SETTINGS, {}, TRUE, "default",
                            "load_project_settings")
               [] result = "oserror" ->
                    \* logged; return
                    GuiOutcome("load_project_settings", result, "returned")
    /\ UNCHANGED <<prevNames, last_project_settings_uri, settings, prefFile, preSettings,
                   config>>

load_project_setttings_from_file ==
    /\ pc = "idle"
    /\ \E filename \in FileNames, remember_uri \in BOOLEAN, result \in {"ok", "oserror"},
          d \in FileDocs :
          LET content == ContentAfterRead(result, d) IN
          /\ last_project_settings_uri' =
                IF remember_uri THEN filename ELSE last_project_settings_uri
          /\ io' = result
          /\ IF content.bound
             THEN DoParse(content.value, {}, TRUE, "file",
                          "load_project_setttings_from_file")
             ELSE \* parse_yaml(content, ...) reads an unbound local variable
                  GuiOutcome("load_project_setttings_from_file", result, "raised")
    /\ UNCHANGED <<prevNames, settings, prefFile, preSettings, config>>

save_project_settings ==
    /\ pc = "idle"
    /\ \E result \in {"ok", "oserror"} :
          IF result = "oserror"
          THEN \* open() failed: logged
               GuiOutcome("save_project_settings", result, "returned")
          ELSE IF CallAccepted(SaveCallKwargs, DumpYamlParams)
               THEN GuiOutcome("save_project_settings", result, "returned")
               ELSE \* TypeError is no OSError: it leaves save_project_settings
                    GuiOutcome("save_project_settings", result, "raised")
    /\ UNCHANGED <<prevNames, last_project_settings_uri, settings, prefFile, preSettings,
                   config>>

save_task_settings_file ==
    /\ pc = "idle"
    /\ \E given \in FileNames \cup {"None"}, chosen \in FileNames \cup {"None"},
          result \in {"ok", "oserror"} :
          LET filename == IF given = "None" THEN chosen ELSE given IN
          /\ last_project_settings_uri' =
                IF given = "None" /\ chosen # "None" THEN chosen
                ELSE last_project_settings_uri
          /\ IF filename = "None"
             THEN \* no filename given -> exit
                  GuiOutcome("save_task_settings_file", "none", "returned")
             ELSE IF result = "oserror"
                  THEN \* logged, then out_file.close() reads an unbound local variable
                       GuiOutcome("save_task_settings_file", result, "raised")
                  ELSE IF CallAccepted(SaveCallKwargs, DumpYamlParams)
                       THEN GuiOutcome("save_task_settings_file", result, "returned")
                       ELSE GuiOutcome("save_task_settings_file", result, "raised")
    /\ UNCHANGED <<prevNames, settings, prefFile, preSettings, config>>

NextGui ==
    \/ load_project_settings
    \/ load_project_setttings_from_file
    \/ save_project_settings
    \/ save_task_settings_file
    \/ Return

(***************************************************************************)
(* SpecPrefs: the preference store                                         *)
(***************************************************************************)
\* a Python value: its type and its repr()
Val(t, r) == [type |-> t, repr |-> r]

\* the keys of PREFERENCES_DEFAULTS the model follows, one for every type of
\* default but the colour mappings
PrefKeys == {"unit", "show_model", "tool_progress_max_fps", "gcode_path_mode"}

PREFERENCES_DEFAULTS ==
    [k \in PrefKeys |->
        CASE k = "unit" -> Val("str", "'mm'")
          [] k = "show_model" -> Val("bool", "True")
          [] k = "tool_progress_max_fps" -> Val("float", "30.0")
          [] k = "gcode_path_mode" -> Val("int", "0")]

\* JSON texts and the Python values json.loads gives for them (json.dumps goes
\* the other way); any other text does not decode
JsonTable ==
    { [raw |-> "\"mm\"", value |-> Val("str", "'mm'")],
      [raw |-> "\"inch\"", value |-> Val("str", "'inch'")],
      [raw |-> "true", value |-> Val("bool", "True")],
      [raw |-> "false", value |-> Val("bool", "False")],
      [raw |-> "30.0", value |-> Val("float", "30.0")],
      [raw |-> "2.5", value |-> Val("float", "2.5")],
      [raw |-> "0", value |-> Val("int", "0")],
      [raw |-> "7", value |-> Val("int", "7")],
      [raw |-> "null", value |-> Val("NoneType", "None")] }

\* json.loads(text): ValueError when the text is no JSON
JsonLoads(raw) ==
    IF \E e \in JsonTable : e.raw = raw
    THEN [ok |-> TRUE, value |-> (CHOOSE e \in JsonTable : e.raw = raw).value]
    ELSE [ok |-> FALSE, value |-> Val("NoneType", "None")]

\* json.dumps(value)
JsonDumps(v) == (CHOOSE e \in JsonTable : e.value = v).raw

\* the classes of a value: bool is a subclass of int
ClassesOf(v) == IF v.type = "bool" THEN {"bool", "int"} ELSE {v.type}

\* isinstance(value, wanted_type)
IsInstance(v, wanted) == ClassesOf(v) \cap wanted # {}

\* wanted_type = type(default); int is accepted for floats, too
WantedType(default) ==
    IF default.type = "float" THEN {"float", "int"} ELSE {default.type}

\* self.settings.set(key, value)
SettingsSet(store, key, value) ==
    [k \in DOMAIN store \cup {key} |-> IF k = key THEN value ELSE store[k]]

\* self.settings.get(key): None for a key that is not set
SettingsGet(store, key) ==
    IF key \in DOMAIN store THEN store[key] ELSE Val("NoneType", "None")

\* the value load_preferences stores for a key the file holds
LoadedValue(item, value_json) ==
    LET r == JsonLoads(value_json)
        value == IF r.ok THEN r.value ELSE PREFERENCES_DEFAULTS[item]
    IN  IF IsInstance(value, WantedType(PREFERENCES_DEFAULTS[item]))
        THEN value
        ELSE PREFERENCES_DEFAULTS[item]

RECURSIVE LoadItemsResetMissing(_, _, _)
LoadItemsResetMissing(store, cfg, items) ==
    IF items = {} THEN store
    ELSE LET item == CHOOSE k \in items : TRUE
             next == IF item \in DOMAIN cfg
                     THEN SettingsSet(store, item, LoadedValue(item, cfg[item]))
                     ELSE SettingsSet(store, item, PREFERENCES_DEFAULTS[item])
         IN  LoadItemsResetMissing(next, cfg, items \ {item})

\* for item in PREFERENCES_DEFAULTS: ... self.settings.set(item, value)
RECURSIVE LoadItems(_, _, _)
LoadItems(store, cfg, items) ==
    IF items = {} THEN store
    ELSE LET item == CHOOSE k \in items : TRUE
             next == IF item \notin DOMAIN cfg
                     THEN \* a new preference setting is missing in the (old) file
                          store
                     ELSE SettingsSet(store, item, LoadedValue(item, cfg[item]))
         IN  LoadItems(next, cfg, items \ {item})

\* for item in PREFERENCES_DEFAULTS: config.set("DEFAULT", item, json.dumps(...))
SavedConfig(store) == [k \in PrefKeys |-> JsonDumps(SettingsGet(store, k))]

\* the preferences file: whether it exists, and its [DEFAULT] entries
NoFile == [exists |-> FALSE, items |-> <<>>]

\* the keys and the texts of a file written outside of pycam
FileKeys == PrefKeys \cup {"obsolete_item"}

RawChoices == {"\"inch\"", "false", "2.5", "7", "mm"}

EnvConfigs ==
    UNION {[D -> RawChoices] : D \in {E \in SUBSET FileKeys : Cardinality(E) <= MaxFileItems}}

\* the values the preferences window sets for a key
UserValues(k) ==
    CASE k = "unit" -> {Val("str", "'mm'"), Val("str", "'inch'")}
      [] k = "show_model" -> {Val("bool", "True"), Val("bool", "False")}
      [] k = "tool_progress_max_fps" -> {Val("float", "30.0"), Val("float", "2.5")}
      [] k = "gcode_path_mode" -> {Val("int", "0"), Val("int", "7")}

PrefsOutcome(name, result, how) ==
    /\ pc' = "done" /\ op' = name /\ io' = result /\ outcome' = how
    /\ preSettings' = settings
    /\ ProjectUnchanged

\* the preferences window changes a setting
SetPreference ==
    /\ pc = "idle"
    /\ \E k \in PrefKeys : \E v \in UserValues(k) :
          /\ settings[k] # v
          /\ settings' = SettingsSet(settings, k, v)
    /\ UNCHANGED <<pc, op, io, outcome, prefFile, preSettings, config>>
    /\ ProjectUnchanged

RECURSIVE ResetItems(_, _)
ResetItems(store, items) ==
    IF items = {} THEN store
    ELSE LET item == CHOOSE k \in items : TRUE
         IN  ResetItems(SettingsSet(store, item, PREFERENCES_DEFAULTS[item]),
                        items \ {item})

reset_preferences ==
    /\ pc = "idle"
    /\ settings' = ResetItems(settings, PrefKeys)
    /\ PrefsOutcome("reset_preferences", "none", "returned")
    /\ UNCHANGED <<prefFile, config>>

\* load_preferences; the file is the one save_preferences wrote last, or one
\* put in its place from outside
load_preferences ==
    /\ pc = "idle"
    /\ \/ \* FileNotFoundError: logged, the empty configuration is gone through
          /\ config' = <<>>
          /\ settings' = LoadItems(settings, <<>>, PrefKeys)
          /\ PrefsOutcome("load_preferences", "notfound", "returned")
       \/ \* OSError: logged; return
          /\ config' = <<>>
          /\ settings' = settings
          /\ PrefsOutcome("load_preferences", "oserror", "returned")
       \/ \E cfg \in EnvConfigs \cup (IF prefFile.exists THEN {prefFile.items} ELSE {}) :
             /\ config' = cfg
             /\ settings' = LoadItems(settings, cfg, PrefKeys)
             /\ PrefsOutcome("load_preferences", "ok", "returned")
    /\ UNCHANGED prefFile

save_preferences ==
    /\ pc = "idle"
    /\ \/ /\ prefFile' = [exists |-> TRUE, items |-> SavedConfig(settings)]
          /\ PrefsOutcome("save_preferences", "ok", "returned")
       \/ \* OSError: logged
          /\ prefFile' = prefFile
          /\ PrefsOutcome("save_preferences", "oserror", "returned")
    /\ UNCHANGED <<settings, config>>

NextPrefs ==
    \/ SetPreference
    \/ reset_preferences
    \/ load_preferences
    \/ save_preferences
    \/ Return

Init ==
    /\ Idle
    /\ coll = EmptyColl
    /\ prevNames = NoNames
    /\ last_project_settings_uri = "None"
    /\ settings = PREFERENCES_DEFAULTS
    /\ prefFile = NoFile
    /\ preSettings = <<>>
    /\ config = <<>>

Spec == Init /\ [][Next]_vars

SpecMerge == Init /\ [][NextMerge]_vars

SpecGui == Init /\ [][NextGui]_vars

SpecPrefs == Init /\ [][NextPrefs]_vars

(***************************************************************************)
(* Properties of parse_yaml and dump_yaml                                  *)
(***************************************************************************)
ParseDone == pc = "done" /\ op = "parse_yaml"

DumpDone == pc = "done" /\ op = "dump_yaml"

\* the data of the item named n of a section
ItemData(sec, n) == sec[CHOOSE i \in 1..Len(sec) : sec[i].name = n].data

ValidNames(sec) == {sec[i].name : i \in {j \in 1..Len(sec) : sec[j].data.ok}}

\* an entity carries the data of a document's item
Carries(e, d) == e.val = d.val /\ e.ext = d.ext

\* a collection by entity name and externalized data, the internal identifier left out
Externalized(c) == {<<c[i].name, c[i].ent.val, c[i].ent.ext>> : i \in 1..Len(c)}

\* the entity named n is the same in both collections, or in neither
SameAt(c1, c2, n) ==
    /\ Has(c1, n) <=> Has(c2, n)
    /\ Has(c1, n) => Count(c1, n) = 1 /\ Get(c1, n) = Get(c2, n)

RECURSIVE SumLen(_, _)
SumLen(f, ks) ==
    IF ks = {} THEN 0
    ELSE LET k == CHOOSE x \in ks : TRUE
         IN  Len(f[k]) + SumLen(f, ks \ {k})

RECURSIVE SumValid(_, _)
SumValid(d, ks) ==
    IF ks = {} THEN 0
    ELSE LET k == CHOOSE x \in ks : TRUE
         IN  Cardinality(ValidNames(SectionOf(d, k))) + SumValid(d, ks \ {k})

\* C1: partial-failure isolation. parse_yaml of a non-empty document returns,
\* and in every section that is not excluded every valid item is in its
\* collection with the document's data, whatever items of the same or of an
\* earlier section failed; a failed item changes nothing; with reset and no
\* exclusion the collections hold as many items as the document has valid ones.
PartialFailureIsolation ==
    (ParseDone /\ doc.kind = "map") =>
        /\ outcome = "returned"
        /\ \A k \in KindSet \ excluded_sections :
              LET sec == SectionOf(doc, k)
                  base == IF reset THEN <<>> ELSE pre[k]
              IN  /\ \A n \in ValidNames(sec) :
                        /\ Count(coll[k], n) = 1
                        /\ Carries(Get(coll[k], n), ItemData(sec, n))
                  /\ \A n \in NamesOf(sec) \ ValidNames(sec) : SameAt(coll[k], base, n)
        /\ (reset /\ excluded_sections = {}) => SumLen(coll, KindSet) = SumValid(doc, KindSet)

\* an item of "tasks" failed; an item of the later section "models" is imported
PartialFailureWitness ==
    /\ ParseDone /\ doc.kind = "map" /\ reset
    /\ \E n \in NamesOf(SectionOf(doc, "tasks")) :
          /\ ~ItemData(SectionOf(doc, "tasks"), n).ok
          /\ ~Has(coll["tasks"], n)
    /\ \E n \in ValidNames(SectionOf(doc, "models")) : Has(coll["models"], n)

\* the collections mirror the document: per kind, exactly the valid names of the
\* document's section, each once and with the document's data
Mirrors(c, d) ==
    \A k \in KindSet :
        LET sec == SectionOf(d, k)
        IN  /\ NamesOf(c[k]) = ValidNames(sec)
            /\ Len(c[k]) = Cardinality(ValidNames(sec))
            /\ \A n \in ValidNames(sec) : Carries(Get(c[k], n), ItemData(sec, n))

\* C2 as stated: every parse_yaml(doc, reset=True) without exclusions that
\* returns normally leaves the collections mirroring the document, a kind
\* without a section empty.
ResetMirrorsAnyDocument ==
    (ParseDone /\ reset /\ excluded_sections = {} /\ outcome = "returned") => Mirrors(coll, doc)

\* C2 amended: the same for a document that does not decode to nothing.
ResetMirrorsDocument ==
    (ParseDone /\ reset /\ excluded_sections = {} /\ outcome = "returned" /\ doc.kind = "map")
        => Mirrors(coll, doc)

\* entities of an earlier call are gone ("tasks" has no section in the document),
\* and a valid item is imported
ResetMirrorsWitness ==
    /\ ParseDone /\ reset /\ excluded_sections = {} /\ outcome = "returned" /\ doc.kind = "map"
    /\ pre["tasks"] # <<>> /\ "tasks" \notin DOMAIN doc.secs /\ coll["tasks"] = <<>>
    /\ \E n \in Names : Has(pre["models"], n) /\ ~Has(coll["models"], n)
    /\ coll["models"] # <<>>

\* C4: exclusion. parse_yaml leaves the collection of every excluded section
\* as it was, and dump_yaml writes a key for exactly the kinds that are not
\* excluded.
ExclusionFrame ==
    /\ ParseDone => \A s \in excluded_sections : coll[s] = pre[s]
    /\ DumpDone => (DOMAIN doc.secs = KindSet \ excluded_sections /\ coll = pre)

\* an excluded section with entities, a reset, and the document has items for it
ExclusionWitness ==
    /\ ParseDone /\ reset /\ outcome = "returned"
    /\ \E s \in excluded_sections :
          /\ pre[s] # <<>>
          /\ ValidNames(SectionOf(doc, s)) # {}
          /\ Externalized(pre[s]) # Externalized(ImportItems(<<>>, SectionOf(doc, s)))

\* C5: registry ordering. Whenever parse_yaml imports the items of a kind, every
\* kind this kind's data can name that is imported at all has been imported
\* before it.
ReferencedKindsImportedFirst ==
    (ParseDone /\ doc.kind = "map") =>
        \A i \in 1..Len(order) :
            SectionOf(doc, order[i]) # <<>> =>
                \A r \in References(order[i]) \ excluded_sections :
                    \E j \in 1..(i - 1) : order[j] = r

\* C6: round trip. Parsing the document of dump_yaml() again with reset leaves
\* every collection as it was, by entity name and externalized data.
RoundTrip ==
    (ParseDone /\ src = "dump" /\ reset) =>
        /\ outcome = "returned"
        /\ \A k \in KindSet :
              /\ Externalized(coll[k]) = Externalized(pre[k])
              /\ Len(coll[k]) = Len(pre[k])

\* two entities of one kind, inserted against the order of their names, one
\* with an extension bag, dumped and parsed again
RoundTripWitness ==
    /\ ParseDone /\ src = "dump" /\ reset /\ outcome = "returned"
    /\ \E k \in KindSet :
          /\ Len(pre[k]) = 2
          /\ NameRank(pre[k][1].name) > NameRank(pre[k][2].name)
          /\ \E i \in 1..2 : pre[k][i].ent.ext # 0
          /\ coll[k] # pre[k]

\* C10: an empty document is a no-op. parse_yaml returns and every collection is
\* as before, whatever excluded_sections and reset are.
EmptyDocumentNoOp ==
    (ParseDone /\ doc.kind = "none") =>
        outcome = "returned" /\ coll = pre /\ order = <<>>

\* an empty document parsed with reset while the collections hold entities
EmptyDocumentWitness ==
    /\ ParseDone /\ doc.kind = "none" /\ reset /\ excluded_sections = {}
    /\ pre["tasks"] # <<>> /\ pre["models"] # <<>>

(***************************************************************************)
(* Properties of two merging parse_yaml calls in sequence (SpecMerge)      *)
(***************************************************************************)
MergeDone ==
    ParseDone /\ ~reset /\ excluded_sections = {} /\ outcome = "returned" /\ doc.kind = "map"

\* entities of the first document whose name the second does not hold are kept
MergeKeeps ==
    \A k \in KindSet : \A n \in prevNames[k] \ NamesOf(SectionOf(doc, k)) :
        SameAt(coll[k], pre[k], n)

GuiOps ==
    {"load_project_settings", "save_project_settings",
     "load_project_setttings_from_file", "save_task_settings_file"}

\* C7: no crash on load/save. Each operation returns normally to its caller on
\* every path, and when the file could not be opened, read or written the
\* collections are as they were.
NoCrashOnLoadSave ==
    (pc = "done" /\ op \in GuiOps) =>
        /\ outcome = "returned"
        /\ io = "oserror" => coll = pre

(***************************************************************************)
(* Properties of load_preferences (SpecPrefs)                              *)
(***************************************************************************)
LoadDone == pc = "done" /\ op = "load_preferences" /\ io \in {"ok", "notfound"}

\* the type of the value is the type of the default, or an int for a float
TypeOfDefault(v, default) ==
    \/ v.type = default.type
    \/ default.type = "float" /\ v.type = "int"

\* C8: type-safe preference load. For every key of the default table the file
\* holds, the value stored is the decoded value if and only if the text decodes
\* and the value has the type of the key's default (or is an int for a float
\* default); in every other case the key holds its default.
TypeSafeLoad ==
    LoadDone =>
        \A k \in PrefKeys \cap DOMAIN config :
            LET r == JsonLoads(config[k])
            IN  settings[k] = IF r.ok /\ TypeOfDefault(r.value, PREFERENCES_DEFAULTS[k])
                              THEN r.value
                              ELSE PREFERENCES_DEFAULTS[k]

\* no key outside the default table is ever written into the store
NoObsoleteKeys == DOMAIN settings = PrefKeys

\* C9 as stated: after load_preferences, whatever set, load and save operations
\* came before, every key of the default table that the file does not hold has
\* its default value, and no key outside the default table is in the store.
MissingKeysHoldDefault ==
    /\ NoObsoleteKeys
    /\ LoadDone => \A k \in PrefKeys \ DOMAIN config : settings[k] = PREFERENCES_DEFAULTS[k]

\* C9 amended: every key of the default table that the file does not hold has
\* the value it had before the load.
MissingKeysKeepValue ==
    /\ NoObsoleteKeys
    /\ LoadDone => \A k \in PrefKeys \ DOMAIN config : settings[k] = preSettings[k]

\* a file with an obsolete key and an entry that is loaded, read while a key
\* the file does not hold is off its default
MissingKeysWitness ==
    /\ LoadDone /\ io = "ok"
    /\ "obsolete_item" \in DOMAIN config
    /\ \E k \in PrefKeys \ DOMAIN config : preSettings[k] # PREFERENCES_DEFAULTS[k]
    /\ \E k \in PrefKeys \cap DOMAIN config : settings[k] # preSettings[k]

====
